---- MODULE Spec2Model ----
(***************************************************************************)
(* Model of src/service/util.js: the validation and formatting helpers of  *)
(* the key server.  Every helper is a pure function of its arguments, so   *)
(* the state is the argument(s) of a call and the outcome of the last      *)
(* call.  JavaScript values are records tagged with their kind, strings    *)
(* are sequences of one-character strings, and the regular expressions of  *)
(* the source are syntax trees evaluated by a small matcher.               *)
(***************************************************************************)
EXTENDS Integers, Sequences, FiniteSets, TLC

VARIABLES data, ctx, status, entropy, ret

vars == <<data, ctx, status, entropy, ret>>

(***************************************************************************)
(* Characters                                                              *)
(***************************************************************************)
Digits == {"0", "1", "2", "3", "4", "5", "6", "7", "8", "9"}

LowerLetters == {"a", "b", "c", "d", "e", "f", "g", "h", "i", "j", "k", "l", "m",
                 "n", "o", "p", "q", "r", "s", "t", "u", "v", "w", "x", "y", "z"}

UpperLetters == {"A", "B", "C", "D", "E", "F", "G", "H", "I", "J", "K", "L", "M",
                 "N", "O", "P", "Q", "R", "S", "T", "U", "V", "W", "X", "Y", "Z"}

\* the characters the regular expression escape \s matches (those used here)
WhiteSpace == {" ", "\t", "\n", "\r"}

\* the characters the regular expression atom . does not match
LineTerminators == {"\n", "\r"}

(***************************************************************************)
(* JavaScript values                                                       *)
(***************************************************************************)
Str(s) == [kind |-> "string", str |-> s, num |-> 0, items |-> <<>>]

\* a String wrapper object, new String(s)
StrObj(s) == [kind |-> "String", str |-> s, num |-> 0, items |-> <<>>]

Num(n) == [kind |-> "number", str |-> <<>>, num |-> n, items |-> <<>>]

NaN == [kind |-> "nan", str |-> <<>>, num |-> 0, items |-> <<>>]

Bool(b) == [kind |-> "boolean", str |-> <<>>, num |-> IF b THEN 1 ELSE 0, items |-> <<>>]

Undefined == [kind |-> "undefined", str |-> <<>>, num |-> 0, items |-> <<>>]

Null == [kind |-> "null", str |-> <<>>, num |-> 0, items |-> <<>>]

\* a plain object, {}
Obj == [kind |-> "object", str |-> <<>>, num |-> 0, items |-> <<>>]

\* an array of primitive strings
Arr(items) == [kind |-> "array", str |-> <<>>, num |-> 0, items |-> items]

\* the typeof operator
Typeof(v) ==
  CASE v.kind = "string" -> "string"
    [] v.kind \in {"number", "nan"} -> "number"
    [] v.kind = "boolean" -> "boolean"
    [] v.kind = "undefined" -> "undefined"
    [] OTHER -> "object"

\* String.prototype.isPrototypeOf(v)
StringPrototypeOf(v) == v.kind = "String"

DigitChars == <<"0", "1", "2", "3", "4", "5", "6", "7", "8", "9">>

RECURSIVE NatToStr(_)
NatToStr(n) ==
  IF n < 10 THEN <<DigitChars[n + 1]>>
  ELSE NatToStr(n \div 10) \o <<DigitChars[(n % 10) + 1]>>

RECURSIVE Join(_, _)
Join(items, k) ==
  IF k > Len(items) THEN <<>>
  ELSE (IF k > 1 THEN <<",">> ELSE <<>>) \o items[k] \o Join(items, k + 1)

\* the abstract operation ToString, which RegExp.prototype.test applies
\* to its argument
ToStr(v) ==
  CASE v.kind \in {"string", "String"} -> v.str
    [] v.kind = "number" ->
         IF v.num < 0 THEN <<"-">> \o NatToStr(-v.num) ELSE NatToStr(v.num)
    [] v.kind = "nan" -> <<"N", "a", "N">>
    [] v.kind = "boolean" ->
         IF v.num = 1 THEN <<"t", "r", "u", "e">> ELSE <<"f", "a", "l", "s", "e">>
    [] v.kind = "undefined" -> <<"u", "n", "d", "e", "f", "i", "n", "e", "d">>
    [] v.kind = "null" -> <<"n", "u", "l", "l">>
    [] v.kind = "array" -> Join(v.items, 1)
    [] OTHER -> <<"[", "o", "b", "j", "e", "c", "t", " ", "O", "b", "j", "e", "c", "t", "]">>

\* the abstract operation ToBoolean, which Boolean(v) and || apply
ToBoolean(v) ==
  CASE v.kind \in {"undefined", "null", "nan"} -> FALSE
    [] v.kind = "boolean" -> v.num = 1
    [] v.kind = "number" -> v.num # 0
    [] v.kind = "string" -> Len(v.str) > 0
    [] OTHER -> TRUE

\* a === b where b is a primitive string literal: an object is never
\* strictly equal to a primitive
StrictEqualsLiteral(v, lit) == v.kind = "string" /\ v.str = lit

(***************************************************************************)
(* Regular expressions                                                     *)
(***************************************************************************)
Class(S) == [t |-> "class", set |-> S, neg |-> FALSE]

NegClass(S) == [t |-> "class", set |-> S, neg |-> TRUE]

Chr(c) == Class({c})

Dot == NegClass(LineTerminators)

Bol == [t |-> "bol"]

Eol == [t |-> "eol"]

Cat(items) == [t |-> "cat", items |-> items]

Alt(items) == [t |-> "alt", items |-> items]

\* r{lo,hi}
Rep(r, lo, hi) == [t |-> "rep", r |-> r, lo |-> lo, bounded |-> TRUE, hi |-> hi]

\* r{lo,}
RepAtLeast(r, lo) == [t |-> "rep", r |-> r, lo |-> lo, bounded |-> FALSE, hi |-> lo]

RECURSIVE Ends(_, _, _)
RECURSIVE CatEnds(_, _, _, _)
RECURSIVE RepEnds(_, _, _, _)

\* the positions at which a match of re that starts at position i of s
\* (i characters consumed) can end
Ends(re, s, i) ==
  CASE re.t = "class" ->
         IF i < Len(s) /\ ((s[i + 1] \in re.set) # re.neg) THEN {i + 1} ELSE {}
    [] re.t = "bol" -> IF i = 0 THEN {i} ELSE {}
    [] re.t = "eol" -> IF i = Len(s) THEN {i} ELSE {}
    [] re.t = "cat" -> CatEnds(re.items, 1, s, {i})
    [] re.t = "alt" -> UNION {Ends(re.items[k], s, i) : k \in 1..Len(re.items)}
    [] re.t = "rep" -> RepEnds(re, s, {i}, 0)

CatEnds(items, k, s, P) ==
  IF k > Len(items) \/ P = {} THEN P
  ELSE CatEnds(items, k + 1, s, UNION {Ends(items[k], s, p) : p \in P})

\* P: the positions reached after n repetitions
RepEnds(re, s, P, n) ==
  (IF n >= re.lo THEN P ELSE {})
    \cup (IF P = {} \/ (re.bounded /\ n >= re.hi) THEN {}
          ELSE RepEnds(re, s, UNION {Ends(re.r, s, p) \ {p} : p \in P}, n + 1))

\* RegExp.prototype.test of a regular expression without flags
Test(re, v) == LET s == ToStr(v) IN \E i \in 0..Len(s) : Ends(re, s, i) # {}

(***************************************************************************)
(* Type and format predicates                                              *)
(***************************************************************************)
isString(v) == Typeof(v) = "string" \/ StringPrototypeOf(v)

isTrue(v) ==
  IF isString(v) THEN StrictEqualsLiteral(v, <<"t", "r", "u", "e">>) ELSE ToBoolean(v)

\* [a-fA-F0-9]
HexClass == Class({"a", "b", "c", "d", "e", "f", "A", "B", "C", "D", "E", "F"} \cup Digits)

\* /^[a-fA-F0-9]{16}$/
KeyIdRegex == Cat(<<Bol, Rep(HexClass, 16, 16), Eol>>)

\* the same expression without the isString guard in front of it
isKeyIdUnguarded(v) == Test(KeyIdRegex, v)

isKeyId(v) == IF ~isString(v) THEN FALSE ELSE Test(KeyIdRegex, v)

\* the expression without its end anchor
FingerPrintRegexOpenEnd == Cat(<<Bol, Rep(HexClass, 40, 40)>>)

\* /^[a-fA-F0-9]{40}$/
FingerPrintRegex == Cat(<<Bol, Rep(HexClass, 40, 40), Eol>>)

isFingerPrint(v) == IF ~isString(v) THEN FALSE ELSE Test(FingerPrintRegex, v)

\* [^<>()[\]\\.,;:\s@\"]
LocalClass ==
  NegClass({"<", ">", "(", ")", "[", "]", "\\", ".", ",", ";", ":", "@", "\""}
             \cup WhiteSpace)

\* ([^<>()[\]\\.,;:\s@\"]+(\.[^<>()[\]\\.,;:\s@\"]+)*)
DotAtomRegex ==
  Cat(<<RepAtLeast(LocalClass, 1),
        RepAtLeast(Cat(<<Chr("."), RepAtLeast(LocalClass, 1)>>), 0)>>)

\* the quoted form with an atom that matches every character
QuotedRegexAnyChar == Cat(<<Chr("\""), RepAtLeast(NegClass({}), 1), Chr("\"")>>)

\* (\".+\")
QuotedRegex == Cat(<<Chr("\""), RepAtLeast(Dot, 1), Chr("\"")>>)

\* [0-9]{1,3}
OctetRegex == Rep(Class(Digits), 1, 3)

\* (\[[0-9]{1,3}\.[0-9]{1,3}\.[0-9]{1,3}\.[0-9]{1,3}\])
AddressLiteralRegex ==
  Cat(<<Chr("["), OctetRegex, Chr("."), OctetRegex, Chr("."), OctetRegex, Chr("."),
        OctetRegex, Chr("]")>>)

\* (([a-zA-Z\-0-9]+\.)+[a-zA-Z]{2,})
DomainNameRegex ==
  Cat(<<RepAtLeast(Cat(<<RepAtLeast(Class(LowerLetters \cup UpperLetters \cup {"-"}
                                            \cup Digits), 1),
                         Chr(".")>>), 1),
        RepAtLeast(Class(LowerLetters \cup UpperLetters), 2)>>)

\* the regular expression re of isEmail
EmailRegex ==
  Cat(<<Bol, Alt(<<DotAtomRegex, QuotedRegex>>), Chr("@"),
        Alt(<<AddressLiteralRegex, DomainNameRegex>>), Eol>>)

isEmail(v) == IF ~isString(v) THEN FALSE ELSE Test(EmailRegex, v)

(***************************************************************************)
(* Error helper and random generator.  The outcome of a call is a record   *)
(* that says whether the call returned or threw, and what.                 *)
(***************************************************************************)
\* new Error(message).message: ToString of the argument, and the empty
\* message of Error.prototype when the argument is undefined
ErrorMessage(message) == IF message.kind = "undefined" THEN <<>> ELSE ToStr(message)

\* the helper handing the error back to its caller
throwReturningError(s, message) ==
  [outcome |-> "return",
   value |-> [message |-> ErrorMessage(message), status |-> s, expose |-> TRUE]]

throw(s, message) ==
  [outcome |-> "throw",
   value |-> [message |-> ErrorMessage(message), status |-> s, expose |-> TRUE]]

\* crypto.randomBytes(size): size bytes of the entropy source, whose
\* stream starts at e.seed and advances by e.step
randomBytes(size, e) == [i \in 1..size |-> (e.seed + (i - 1) * e.step) % 256]

LowerHexDigits == <<"0", "1", "2", "3", "4", "5", "6", "7", "8", "9",
                    "a", "b", "c", "d", "e", "f">>

\* Buffer.prototype.toString('hex')
toHex(buf) ==
  [i \in 1..(2 * Len(buf)) |->
     LET b == buf[(i + 1) \div 2]
     IN  IF i % 2 = 1 THEN LowerHexDigits[(b \div 16) + 1] ELSE LowerHexDigits[(b % 16) + 1]]

random(bytes, e) ==
  LET size == IF ToBoolean(bytes) THEN bytes ELSE Num(16)
  IN  toHex(randomBytes(size.num, e))

(***************************************************************************)
(* Request-context helpers.  A context carries the secure flag, the        *)
(* request headers as <<lower-case name, value>> pairs, the protocol and   *)
(* the host.                                                               *)
(***************************************************************************)
\* ctx.get(field): the value of the request header, '' when it is absent
Get(c, field) ==
  LET name == IF field = "X-Forwarded-Proto" THEN "x-forwarded-proto" ELSE field
  IN  IF \E h \in c.headers : h[1] = name
      THEN (CHOOSE h \in c.headers : h[1] = name)[2]
      ELSE ""

\* the check without the test of the secure flag
checkHTTPIgnoringSecure(c) == Get(c, "X-Forwarded-Proto") = "http"

checkHTTP(c) == ~c.secure /\ Get(c, "X-Forwarded-Proto") = "http"

\* the check with && in place of ||
checkHTTPSBoth(c) == c.secure /\ Get(c, "X-Forwarded-Proto") = "https"

checkHTTPS(c) == c.secure \/ Get(c, "X-Forwarded-Proto") = "https"

\* the origin with the protocol of the context in every case
originRawProtocol(c) == [protocol |-> c.protocol, host |-> c.host]

origin(c) ==
  [protocol |-> IF checkHTTPS(c) THEN "https" ELSE c.protocol,
   host |-> c.host]

\* resource is [given |-> BOOLEAN, path |-> string]; resource || '' is the
\* path unless the argument is missing or the empty string
url(o, resource) ==
  o.protocol \o "://" \o o.host
    \o (IF resource.given /\ resource.path # "" THEN resource.path ELSE "")

\* the url with the scheme chosen by the secure flag alone
hkpUrlSecureOnly(c) == (IF c.secure THEN "hkps://" ELSE "hkp://") \o c.host

hkpUrl(c) == (IF checkHTTPS(c) THEN "hkps://" ELSE "hkp://") \o c.host

(***************************************************************************)
(* Calls.  ret records the function called last and its outcome.           *)
(***************************************************************************)
NoCall == [fn |-> "none"]

NoCtx == [secure |-> FALSE, headers |-> {}, protocol |-> "", host |-> ""]

Returns(fn, v) == ret' = [fn |-> fn, outcome |-> "return", value |-> v]

CallIsString ==
  /\ Returns("isString", isString(data))
  /\ UNCHANGED <<data, ctx, status, entropy>>

CallIsTrue ==
  /\ Returns("isTrue", isTrue(data))
  /\ UNCHANGED <<data, ctx, status, entropy>>

CallIsEmail ==
  /\ Returns("isEmail", isEmail(data))
  /\ UNCHANGED <<data, ctx, status, entropy>>

CallIsKeyId ==
  /\ Returns("isKeyId", isKeyId(data))
  /\ UNCHANGED <<data, ctx, status, entropy>>

CallIsFingerPrint ==
  /\ Returns("isFingerPrint", isFingerPrint(data))
  /\ UNCHANGED <<data, ctx, status, entropy>>

(***************************************************************************)
(* Key ids and fingerprints: the arguments are runs of hexadecimal digits  *)
(* of every length up to MaxHexLen, optionally with one other character    *)
(* at the front, in the middle or at the end, as primitive strings, as     *)
(* String objects and as the single element of an array.                   *)
(***************************************************************************)
MaxHexLen == 41

HexAlphabet == <<"0", "a", "A", "1", "b", "B", "2", "c", "C", "3", "d", "D",
                 "4", "e", "E", "5", "f", "F", "6", "7", "8", "9">>

HexRun(n, off) == [i \in 1..n |-> HexAlphabet[((i + off) % Len(HexAlphabet)) + 1]]

NonHexChars == {"g", "G", "x", "-", " ", "\n"}

HexStrings ==
  {HexRun(n, off) : n \in 0..MaxHexLen, off \in {0, 7}}
    \cup {[HexRun(n, 0) EXCEPT ![p] = c] :
            <<n, p, c>> \in {t \in (1..MaxHexLen) \X (1..MaxHexLen) \X NonHexChars :
                               t[2] \in {1, (t[1] + 1) \div 2, t[1]}}}

HexInputs ==
  {Str(s) : s \in HexStrings} \cup {StrObj(s) : s \in HexStrings}
    \cup {Arr(<<s>>) : s \in HexStrings}
    \cup {Num(0), Num(1234567890), Num(-1), NaN, Bool(TRUE), Undefined, Null, Obj,
          Arr(<<>>)}

InitHex ==
  /\ data \in HexInputs
  /\ ctx = NoCtx
  /\ status = 0
  /\ entropy = 0
  /\ ret = NoCall

NextHex == CallIsString \/ CallIsKeyId \/ CallIsFingerPrint

SpecHex == InitHex /\ [][NextHex]_vars

IsHexChar(c) == c \in Digits \/ c \in {"a", "b", "c", "d", "e", "f"}
                  \/ c \in {"A", "B", "C", "D", "E", "F"}

\* the characters of a textual value
Chars(v) == v.str

AllHex(s) == \A i \in 1..Len(s) : IsHexChar(s[i])

\* C1: isKeyId(v) is true exactly when v is textual and consists of exactly
\* 16 characters, each of them a hexadecimal digit of either case; every
\* other textual value and every value that is not textual gives false.
KeyIdIffSixteenHex ==
  ret.fn = "isKeyId" =>
    /\ ret.value \in BOOLEAN
    /\ ret.value <=> (isString(data) /\ Len(Chars(data)) = 16 /\ AllHex(Chars(data)))

KeyIdAccepted == ret.fn = "isKeyId" /\ ret.value /\ data.kind = "String"

\* C2: isFingerPrint(v) is true exactly when v is textual and consists of
\* exactly 40 characters, each of them a hexadecimal digit of either case;
\* every other textual value (a 16-character key id among them) and every
\* value that is not textual gives false.
FingerPrintIffFortyHex ==
  ret.fn = "isFingerPrint" =>
    /\ ret.value \in BOOLEAN
    /\ ret.value <=> (isString(data) /\ Len(Chars(data)) = 40 /\ AllHex(Chars(data)))
    /\ isKeyId(data) => ~ret.value

FingerPrintAccepted == ret.fn = "isFingerPrint" /\ ret.value /\ data.kind = "string"

(***************************************************************************)
(* Boolean coercion: the arguments are strings around the literal "true",  *)
(* as primitive strings and as String objects, and values of every other   *)
(* type.                                                                   *)
(***************************************************************************)
TrueStrings ==
  {<<"t", "r", "u", "e">>, <<"f", "a", "l", "s", "e">>, <<>>, <<"T", "R", "U", "E">>,
   <<"T", "r", "u", "e">>, <<"t", "r", "u">>, <<"t", "r", "u", "e", "e">>,
   <<"t", "r", "u", "e", " ">>, <<" ", "t", "r", "u", "e">>, <<"t", "r", "u", "e", "\n">>,
   <<"1">>, <<"0">>, <<"y", "e", "s">>, <<"n", "o">>, <<"o", "n">>, <<" ">>,
   <<"n", "u", "l", "l">>, <<"N", "a", "N">>}

TrueInputs ==
  {Str(s) : s \in TrueStrings} \cup {StrObj(s) : s \in TrueStrings}
    \cup {Num(0), Num(1), Num(-1), Num(2), NaN, Bool(TRUE), Bool(FALSE), Undefined, Null,
          Obj, Arr(<<>>), Arr(<<<<"t", "r", "u", "e">>>>), Arr(<<<<"f", "a", "l", "s", "e">>>>)}

InitTrue ==
  /\ data \in TrueInputs
  /\ ctx = NoCtx
  /\ status = 0
  /\ entropy = 0
  /\ ret = NoCall

NextTrue == CallIsString \/ CallIsTrue

SpecTrue == InitTrue /\ [][NextTrue]_vars

\* C9: isTrue(v) is decided by whether v is textual (a primitive string or
\* a String object): a textual v gives true exactly when it equals the
\* literal "true", any other v gives true exactly when it is truthy.
TrueIffLiteralOrTruthy ==
  ret.fn = "isTrue" =>
    IF isString(data)
    THEN ret.value <=> (Chars(data) = <<"t", "r", "u", "e">>)
    ELSE ret.value <=> ToBoolean(data)

\* the primitive string "true" gives true
TrueLiteralAccepted ==
  ret.fn = "isTrue" /\ ret.value /\ data = Str(<<"t", "r", "u", "e">>)

CallCheckHTTP ==
  /\ Returns("checkHTTP", checkHTTP(ctx))
  /\ UNCHANGED <<data, ctx, status, entropy>>

CallCheckHTTPS ==
  /\ Returns("checkHTTPS", checkHTTPS(ctx))
  /\ UNCHANGED <<data, ctx, status, entropy>>

CallOrigin ==
  /\ Returns("origin", origin(ctx))
  /\ UNCHANGED <<data, ctx, status, entropy>>

Resources ==
  {[given |-> FALSE, path |-> ""], [given |-> TRUE, path |-> ""],
   [given |-> TRUE, path |-> "/api/v1/key"]}

CallUrl ==
  /\ \E resource \in Resources : Returns("url", url(origin(ctx), resource))
  /\ UNCHANGED <<data, ctx, status, entropy>>

CallHkpUrl ==
  /\ Returns("hkpUrl", hkpUrl(ctx))
  /\ UNCHANGED <<data, ctx, status, entropy>>

(***************************************************************************)
(* Request contexts: every combination of the secure flag, an absent or    *)
(* present X-Forwarded-Proto header, a protocol and a host.                *)
(***************************************************************************)
ForwardedProtos == {"http", "https", "HTTPS", "https,http", "ws", ""}

HeaderSets ==
  {{<<"host", "keys.example.com">>}}
    \cup {{<<"host", "keys.example.com">>, <<"x-forwarded-proto", p>>} : p \in ForwardedProtos}

Protocols == {"http", "https", ""}

Hosts == {"keys.example.com", "localhost:8888", ""}

Contexts == [secure : BOOLEAN, headers : HeaderSets, protocol : Protocols, host : Hosts]

InitCtx ==
  /\ data = Undefined
  /\ ctx \in Contexts
  /\ status = 0
  /\ entropy = 0
  /\ ret = NoCall

NextCtx == CallCheckHTTP \/ CallCheckHTTPS \/ CallOrigin \/ CallUrl \/ CallHkpUrl

SpecCtx == InitCtx /\ [][NextCtx]_vars

\* the request states the forwarded protocol p
Forwarded(c, p) == <<"x-forwarded-proto", p>> \in c.headers

NoForwardedProto(c) == \A h \in c.headers : h[1] # "x-forwarded-proto"

\* C4: checkHTTPS(ctx) is true exactly when ctx.secure is true or the
\* X-Forwarded-Proto header is exactly 'https'; with secure false and the
\* header absent or of any other value it is false.
HTTPSIffSecureOrForwarded ==
  ret.fn = "checkHTTPS" =>
    /\ ret.value <=> (ctx.secure \/ Forwarded(ctx, "https"))
    /\ (~ctx.secure /\ Forwarded(ctx, "https")) => ret.value
    /\ (~ctx.secure /\ (NoForwardedProto(ctx) \/ ~Forwarded(ctx, "https"))) => ~ret.value

HTTPSByForwardedProto ==
  ret.fn = "checkHTTPS" /\ ret.value /\ ~ctx.secure /\ Forwarded(ctx, "https")

\* C5: checkHTTP(ctx) is true exactly when ctx.secure is false and the
\* X-Forwarded-Proto header is exactly 'http'; a secure connection, an
\* absent header and a header stating 'https' give false, and checkHTTP
\* and checkHTTPS are never both true of one context.
HTTPIffInsecureAndForwarded ==
  ret.fn = "checkHTTP" =>
    /\ ret.value <=> (~ctx.secure /\ Forwarded(ctx, "http"))
    /\ (ctx.secure \/ NoForwardedProto(ctx) \/ Forwarded(ctx, "https")) => ~ret.value
    /\ ~(ret.value /\ checkHTTPS(ctx))

HTTPByForwardedProto ==
  ret.fn = "checkHTTP" /\ ret.value /\ ~ctx.secure /\ Forwarded(ctx, "http")

HkpUrlOfContext ==
  ret.fn = "hkpUrl" =>
    /\ ret.value = (IF ctx.secure \/ Forwarded(ctx, "https")
                    THEN "hkps://" \o ctx.host ELSE "hkp://" \o ctx.host)
    /\ Len(ret.value) = Len(ctx.host)
         + (IF ctx.secure \/ Forwarded(ctx, "https") THEN 7 ELSE 6)
    /\ (~ctx.secure /\ NoForwardedProto(ctx)) => ret.value # "hkps://" \o ctx.host

HkpsByForwardedProto ==
  /\ ret.fn = "hkpUrl"
  /\ ~ctx.secure /\ Forwarded(ctx, "https") /\ ctx.host = "keys.example.com"
  /\ ret.value = "hkps://keys.example.com"

CallThrow ==
  /\ ret' = [fn |-> "throw"] @@ throw(status, data)
  /\ UNCHANGED <<data, ctx, status, entropy>>

CallRandom ==
  /\ Returns("random", random(data, entropy))
  /\ UNCHANGED <<data, ctx, status, entropy>>

(***************************************************************************)
(* Errors: every pair of a status code and a message.                      *)
(***************************************************************************)
Statuses == {400, 401, 404, 409, 500, 501, 0}

Messages ==
  {<<>>, <<"N", "o", "t", " ", "f", "o", "u", "n", "d">>, <<"I", "n", "v", "a", "l", "i", "d">>,
   <<"e", "r", "r">>, <<"4", "0", "4">>, <<"u", "n", "d", "e", "f", "i", "n", "e", "d">>,
   <<"K", "e", "y", " ", "n", "o", "t", " ", "f", "o", "u", "n", "d">>, <<" ">>,
   <<"I", "n", "v", "a", "l", "i", "d", " ", "o", "p">>}

InitThrow ==
  /\ data \in {Str(m) : m \in Messages}
  /\ ctx = NoCtx
  /\ status \in Statuses
  /\ entropy = 0
  /\ ret = NoCall

NextThrow == CallThrow

SpecThrow == InitThrow /\ [][NextThrow]_vars

MaxBytes == 17

Steps == {1, 37}

InitRandom ==
  /\ data \in {Undefined} \cup {Num(n) : n \in 0..MaxBytes}
  /\ ctx = NoCtx
  /\ status = 0
  /\ entropy \in [seed : 0..255, step : Steps]
  /\ ret = NoCall

NextRandom == CallRandom

SpecRandom == InitRandom /\ [][NextRandom]_vars

\* C8: for every non-negative byte count the string random returns is
\* exactly twice as long as the count and made of the characters 0-9 and
\* a-f only; without an argument the count is 16 and the string has 32
\* characters.
RandomTwiceByteCount ==
  ret.fn = "random" =>
    /\ \A i \in 1..Len(ret.value) :
         ret.value[i] \in Digits \cup {"a", "b", "c", "d", "e", "f"}
    /\ data.kind = "number" => Len(ret.value) = 2 * data.num
    /\ data.kind = "undefined" => Len(ret.value) = 32

(***************************************************************************)
(* Email addresses: every local part of up to MaxLocalLen characters in    *)
(* front of a few domains, and a few local parts in front of every domain  *)
(* of up to MaxDomainLen characters and of every bracketed quad of groups  *)
(* of up to MaxGroupLen digits.                                            *)
(***************************************************************************)
MaxLocalLen == 3

MaxDomainLen == 4

MaxGroupLen == 4

LocalAlphabet == {"a", ".", "\"", "@", " ", "\n", "<", "!"}

DomainAlphabet == {"a", "1", "-", "."}

StringsUpTo(alphabet, n) == UNION {[1..k -> alphabet] : k \in 0..n}

Groups == {[i \in 1..k |-> DigitChars[i + 1]] : k \in 0..MaxGroupLen} \cup {<<"a">>, <<"1", " ">>}

Quads ==
  {<<"[">> \o g[1] \o <<".">> \o g[2] \o <<".">> \o g[3] \o <<".">> \o g[4] \o <<"]">> :
     g \in Groups \X Groups \X Groups \X Groups}

BrokenQuads ==
  {<<"[", "1", ".", "2", ".", "3", "]">>, <<"[", "1", ".", "2", ".", "3", ".", "4", ".", "5", "]">>,
   <<"1", ".", "2", ".", "3", ".", "4">>, <<"[", "1", ".", "2", ".", "3", ".", "4">>,
   <<"1", ".", "2", ".", "3", ".", "4", "]">>, <<"[", "1", ".", "2", ".", "3", ".", "4", "]", "a">>,
   <<"[", "1", ",", "2", ".", "3", ".", "4", "]">>}

SomeLocals == {<<"a">>, <<"\"", "a", "\"">>, <<>>, <<"a", ".">>, <<"a", ".", "b", "!">>}

SomeDomains ==
  {<<"a", ".", "a", "a">>, <<"[", "1", ".", "1", ".", "1", ".", "1", "]">>, <<"a">>, <<>>,
   <<"a", ".", "a", "a", "\n">>, <<"a", "-", "1", ".", "b", ".", "C", "o", "M">>}

UserAtExample ==
  <<"u", "s", "e", "r", "@", "e", "x", "a", "m", "p", "l", "e", ".", "c", "o", "m">>

NotAnEmail == <<"n", "o", "t", "-", "a", "n", "-", "e", "m", "a", "i", "l">>

EmailStrings ==
  {l \o sep \o d : <<l, sep, d>> \in
     StringsUpTo(LocalAlphabet, MaxLocalLen) \X {<<"@">>, <<>>} \X SomeDomains}
    \cup {l \o sep \o d : <<l, sep, d>> \in
            SomeLocals \X {<<"@">>, <<>>}
              \X (StringsUpTo(DomainAlphabet, MaxDomainLen) \cup Quads \cup BrokenQuads)}
    \cup {UserAtExample, NotAnEmail}

EmailInputs ==
  {Str(s) : s \in EmailStrings}
    \cup {StrObj(l \o <<"@">> \o d) : <<l, d>> \in SomeLocals \X SomeDomains}
    \cup {Arr(<<l \o <<"@">> \o d>>) : <<l, d>> \in SomeLocals \X SomeDomains}
    \cup {StrObj(UserAtExample), Arr(<<UserAtExample>>), Arr(<<>>), Num(0), NaN, Bool(TRUE),
          Undefined, Null, Obj}

InitEmail ==
  /\ data \in EmailInputs
  /\ ctx = NoCtx
  /\ status = 0
  /\ entropy = 0
  /\ ret = NoCall

NextEmail == CallIsString \/ CallIsEmail

SpecEmail == InitEmail /\ [][NextEmail]_vars

Segment(s, from, to) == [i \in 1..(to - from + 1) |-> s[from + i - 1]]

RECURSIVE SplitAtDots(_)
\* the runs of s between its dots, empty runs included
SplitAtDots(s) ==
  IF \A i \in 1..Len(s) : s[i] # "."
  THEN <<s>>
  ELSE LET k == CHOOSE i \in 1..Len(s) : s[i] = "." /\ \A j \in 1..(i - 1) : s[j] # "."
       IN  <<Segment(s, 1, k - 1)>> \o SplitAtDots(Segment(s, k + 1, Len(s)))

AllIn(s, S) == \A i \in 1..Len(s) : s[i] \in S

LocalForbidden ==
  {"<", ">", "(", ")", "[", "]", "\\", ".", ",", ";", ":", "@", "\""} \cup WhiteSpace

\* dot-separated non-empty runs of characters none of which is forbidden
DottedRuns(l) ==
  LET runs == SplitAtDots(l)
  IN  \A k \in 1..Len(runs) :
        runs[k] # <<>> /\ \A i \in 1..Len(runs[k]) : runs[k][i] \notin LocalForbidden

\* a double-quoted non-empty string
DoubleQuoted(l) == Len(l) >= 3 /\ l[1] = "\"" /\ l[Len(l)] = "\""

\* a double-quoted non-empty string without a line terminator in it
DoubleQuotedLine(l) ==
  DoubleQuoted(l) /\ \A i \in 2..(Len(l) - 1) : l[i] \notin LineTerminators

\* a bracketed dotted quad of four groups of 1 to 3 digits
DottedQuad(d) ==
  /\ Len(d) >= 2 /\ d[1] = "[" /\ d[Len(d)] = "]"
  /\ LET groups == SplitAtDots(Segment(d, 2, Len(d) - 1))
     IN  /\ Len(groups) = 4
         /\ \A k \in 1..4 : Len(groups[k]) \in 1..3 /\ AllIn(groups[k], Digits)

\* labels of letters, digits and hyphens, each followed by a dot, and a
\* final label of at least two letters
DomainName(d) ==
  LET labels == SplitAtDots(d)
      n == Len(labels)
  IN  /\ n >= 2
      /\ \A k \in 1..(n - 1) :
           /\ labels[k] # <<>>
           /\ AllIn(labels[k], LowerLetters \cup UpperLetters \cup Digits \cup {"-"})
      /\ Len(labels[n]) >= 2
      /\ AllIn(labels[n], LowerLetters \cup UpperLetters)

EmailShape(s, Quoted(_)) ==
  \E k \in 1..Len(s) :
    /\ s[k] = "@"
    /\ LET local == Segment(s, 1, k - 1)
           domain == Segment(s, k + 1, Len(s))
       IN  /\ DottedRuns(local) \/ Quoted(local)
           /\ DottedQuad(domain) \/ DomainName(domain)

\* C3, as stated: isEmail(v) is true exactly when v is textual and has the
\* shape local@domain, local being dot-separated non-empty runs of
\* permitted characters or any double-quoted non-empty string, and domain
\* a bracketed dotted quad or a dotted name with a final label of at least
\* two letters.
EmailIffShapeAnyQuoted ==
  ret.fn = "isEmail" =>
    (ret.value <=> (isString(data) /\ EmailShape(Chars(data), DoubleQuoted)))

\* C3, amended: as above, with a double-quoted local part that contains no
\* line terminator.
EmailIffShape ==
  ret.fn = "isEmail" =>
    (ret.value <=> (isString(data) /\ EmailShape(Chars(data), DoubleQuotedLine)))

EmailAccepted ==
  /\ ret.fn = "isEmail" /\ ret.value
  /\ data \in {Str(UserAtExample), Str(<<"\"", " ", "\"", "@", "a", ".", "a", "a">>)}

====
